---- MODULE Spec2Model ----
(***************************************************************************)
(* Crawl-and-enrich orchestration of the business bot:                     *)
(*   project/helpers/crawler.py   normalize_url, WebsiteCrawler            *)
(*   project/helpers/pipeline.py  BusinessPipeline                         *)
(*   project/helpers/storage.py   StorageClient (business_pages)           *)
(*   project/main.py              run_pipelines                            *)
(* Time is counted in hours.  A URL string is a record of its parts; a     *)
(* path, query or fragment is the sequence of its atoms ("/" and names).   *)
(***************************************************************************)
EXTENDS Integers, Sequences, FiniteSets, TLC

VARIABLES
    clock,         \* datetime.now(timezone.utc), in hours
    store,         \* table business_pages: <<business_id, url>> -> row
    proc,          \* process -> asyncio.run(run_pipelines()): "running" | "aborted"
    batch,         \* run -> the process whose run_pipelines() created it
    max_links,     \* WebsiteCrawler.max_links
    link_cc,       \* BusinessPipeline.link_concurrency
    caller,        \* who awaits crawl(): "run" (BusinessPipeline.run) | "direct"
    biz,           \* run -> business_id
    start_url,     \* run -> business_url
    run_pc,        \* run -> position of BusinessPipeline.run / crawl
    gate,          \* run -> what the business gate of run() came to
    visited,       \* run -> WebsiteCrawler.visited
    all_links,     \* run -> all_links of crawl()
    root_result,   \* run -> root_result of crawl()
    subs,          \* run -> the fetch_and_store tasks of crawl()
    results,       \* run -> results of crawl()
    link_results,  \* run -> what crawl() returned
    found,         \* run -> render (0 the root, i the i-th sub) -> the links of a
                   \*        fetch_links whose href loop has run and which has not ended
    sem,           \* run -> free permits of _render_semaphore
    tasks,         \* run -> the process_link tasks
    ps_tasks,      \* run -> _pagespeed_tasks: url -> state of the asyncio task
    ps_calls,      \* run -> url -> number of analyze_page calls started
    workers,       \* the <<run, url>> whose analyze_page a pool thread is executing
    returned,      \* run -> url -> outcome of an analyze_page call that has returned
                   \*        in its thread and whose task has not been completed yet
    calls,         \* run -> kinds of external calls issued by the run
    ps_workers,    \* max_workers of BusinessPipeline._PAGESPEED_POOL
    fn             \* the call of a pure function under study: its input and result

vars == << clock, store, proc, batch, max_links, link_cc, caller, biz, start_url,
           run_pc, gate, visited, all_links, root_result, subs, results, link_results,
           found, sem, tasks, ps_tasks, ps_calls, workers, returned, calls, ps_workers,
           fn >>

(***************************************************************************)
(* URLs                                                                    *)
(***************************************************************************)
Url(s, h, p, path, q, f) ==
    [scheme |-> s, host |-> h, port |-> p, path |-> path, query |-> q, frag |-> f]

NoUrl == Url("", "", "", <<>>, <<>>, <<>>)

\* str.lower() on the atoms the model uses
Lower(t) ==
    CASE t = "HTTP"  -> "http"
      [] t = "HTTPS" -> "https"
      [] t = "A"     -> "a"
      [] t = "B"     -> "b"
      [] t = ".PDF"  -> ".pdf"
      [] t = ".GIF"  -> ".gif"
      [] OTHER       -> t

\* urlparse(url).netloc : host and port, as written
Netloc(u) == << u.host, u.port >>

\* str.rstrip("/") on a path
RECURSIVE RStripSlash(_)
RStripSlash(p) ==
    IF p # <<>> /\ p[Len(p)] = "/" THEN RStripSlash(SubSeq(p, 1, Len(p) - 1)) ELSE p

\* normalize_url that leaves the port as written
normalize_url_port_kept(u) ==
    LET path0 == IF u.path = <<>> THEN <<"/">> ELSE u.path
        path  == IF path0 # <<"/">> /\ path0[Len(path0)] = "/"
                 THEN RStripSlash(path0) ELSE path0
    IN  Url(Lower(u.scheme), Lower(u.host), u.port, path, <<>>, <<>>)

normalize_url(u) ==
    LET scheme == Lower(u.scheme)
        host   == Lower(u.host)
        port   == IF (u.port = "80" /\ scheme = "http") \/ (u.port = "443" /\ scheme = "https")
                  THEN "" ELSE u.port
        path0  == IF u.path = <<>> THEN <<"/">> ELSE u.path
        path   == IF path0 # <<"/">> /\ path0[Len(path0)] = "/"
                  THEN RStripSlash(path0) ELSE path0
    IN  Url(scheme, host, port, path, <<>>, <<>>)

\* href.split("#")[0]
StripFragment(u) == [u EXCEPT !.frag = <<>>]

AssetExts ==
    {".jpg", ".jpeg", ".png", ".gif", ".bmp", ".svg", ".webp", ".ico", ".tiff", ".pdf",
     ".doc", ".docx", ".xls", ".xlsx", ".ppt", ".pptx", ".zip", ".rar", ".css", ".js",
     ".json", ".xml"}

\* any(cleaned.lower().endswith(ext) ...): the string ends with its query when
\* it has one, else with its path
IsAsset(u) ==
    LET tail == IF u.query # <<>> THEN u.query ELSE u.path
    IN  tail # <<>> /\ Lower(tail[Len(tail)]) \in AssetExts

(***************************************************************************)
(* fetch_links: the loop over the hrefs of the page                        *)
(***************************************************************************)
RECURSIVE ExtractLinks(_, _, _, _, _)
ExtractLinks(hrefs, domain, vis, links, cap) ==
    IF hrefs = <<>> THEN [links |-> links, visited |-> vis]
    ELSE LET href    == Head(hrefs)
             cleaned == StripFragment(href)
             norm    == normalize_url(cleaned)
         IN  IF Netloc(href) = domain /\ ~IsAsset(cleaned) /\ norm \notin vis
             THEN IF Len(links) + 1 >= cap
                  THEN [links |-> Append(links, norm), visited |-> vis \cup {norm}]
                  ELSE ExtractLinks(Tail(hrefs), domain, vis \cup {norm},
                                    Append(links, norm), cap)
             ELSE ExtractLinks(Tail(hrefs), domain, vis, links, cap)

(***************************************************************************)
(* safe_goto: up to 3 navigation attempts; outs[i] is what attempt i meets *)
(***************************************************************************)
NavOutcomes == {"ok", "reset", "err"}
NavAttempts == 3

\* safe_goto without the fallback: the next attempt goes to the same url
HttpFallback_none(u) == u

\* target_url.replace("https://", "http://", 1)
HttpFallback(u) == [u EXCEPT !.scheme = "http"]

\* a loop that never downgrades
Downgradable_never(target) == FALSE

\* target_url.startswith("https://"): the match is on the string as given
Downgradable(target) == target.scheme = "https"

\* a loop that waits the same time after every failed attempt
Backoff_flat(attempt) == 2

\* the seconds slept after the failed attempt numbered attempt (from 0)
Backoff(attempt) == 2 * (attempt + 1)

\* the loop from iteration attempt on; log holds the urls requested and the
\* delays slept so far, target is the loop's target_url
RECURSIVE SafeGotoFrom(_, _, _, _)
SafeGotoFrom(attempt, target, outs, log) ==
    IF attempt >= NavAttempts
    THEN [ok |-> FALSE, tried |-> log.tried, slept |-> log.slept, target |-> target]
    ELSE LET now_tried == Append(log.tried, target)
             now_slept == Append(log.slept, Backoff(attempt))
         IN  IF outs[attempt + 1] = "ok"
             THEN [ok |-> TRUE, tried |-> now_tried, slept |-> log.slept,
                   target |-> target]
             ELSE IF Downgradable(target) /\ outs[attempt + 1] = "reset"
                  THEN SafeGotoFrom(attempt + 1, HttpFallback(target), outs,
                                    [tried |-> now_tried, slept |-> now_slept])
                  ELSE IF attempt = 2
                       THEN [ok |-> FALSE, tried |-> now_tried,
                             slept |-> log.slept, target |-> target]
                       ELSE SafeGotoFrom(attempt + 1, target, outs,
                                         [tried |-> now_tried, slept |-> now_slept])

safe_goto(url, outs) == SafeGotoFrom(0, url, outs, [tried |-> <<>>, slept |-> <<>>])

NavRuns == [1..NavAttempts -> NavOutcomes]

\* whether navigation to url can succeed, over everything the attempts may meet
NavResults(url) == {safe_goto(url, outs).ok : outs \in NavRuns}

(***************************************************************************)
(* The businesses, their sites and the storage rows                        *)
(***************************************************************************)
Runs == {"r1", "r2"}

Procs == {"p1", "p2"}

Businesses == {"a", "b", "c"}

\* "http://a", whose only anchor is "http://a//"
StartA == Url("http", "a", "", <<>>, <<>>, <<>>)
QuirkA == Url("http", "a", "", <<"/", "/">>, <<>>, <<>>)
\* "https://b/", a page without anchors
StartB == Url("https", "b", "", <<"/">>, <<>>, <<>>)
\* "http://c/", whose anchors are any of HrefsC, in any order, repeated or not
StartC == Url("http", "c", "", <<"/">>, <<>>, <<>>)
Cx     == Url("http", "c", "", <<"/", "x">>, <<>>, <<>>)
CxS    == Url("http", "c", "", <<"/", "x", "/">>, <<>>, <<"f">>)
Cy     == Url("http", "c", "", <<"/", "y">>, <<"q">>, <<>>)
Cz     == Url("HTTP", "c", "80", <<"/", "z">>, <<>>, <<>>)
CRoot  == Url("http", "c", "", <<>>, <<>>, <<"top">>)
CPdf   == Url("http", "c", "", <<"/", "p", ".pdf">>, <<>>, <<>>)
CGif   == Url("http", "c", "", <<"/", "p", ".GIF">>, <<>>, <<"f">>)
COther == Url("http", "b", "", <<"/", "x">>, <<>>, <<>>)
CSlash == Url("http", "c", "", <<"/", "/">>, <<>>, <<>>)

HrefsC == {Cx, CxS, Cy, Cz, CRoot, CPdf, CGif, COther, CSlash}

BusinessUrl(b) == CASE b = "a" -> StartA [] b = "b" -> StartB [] OTHER -> StartC

MaxHrefs == 3

SeqsUpTo(S, n) == UNION {[1..k -> S] : k \in 0..n}

\* a link of the page at url that leads one level deeper
DeepOf(url) == [url EXCEPT !.path = url.path \o <<"/", "d">>]

\* page.eval_on_selector_all("a", ...): the href lists the page at url may hold
Markups(url) ==
    CASE url = StartA -> {<<QuirkA>>}
      [] url = StartB -> {<<>>}
      [] url = StartC -> SeqsUpTo(HrefsC, MaxHrefs)
      [] OTHER        -> {<<DeepOf(url)>>}

(***************************************************************************)
(* WebsiteCrawler.crawl                                                    *)
(***************************************************************************)
Min(a, b) == IF a <= b THEN a ELSE b
Max(a, b) == IF a >= b THEN a ELSE b

\* the slice with the cap off by one: sub_links[: max(0, self.max_links - 2)]
CapSubLinks_short(links, cap) == SubSeq(links, 1, Min(Len(links), Max(0, cap - 2)))

\* sub_links[: max(0, self.max_links - 1)]
CapSubLinks(links, cap) == SubSeq(links, 1, Min(Len(links), Max(0, cap - 1)))

NoResult == [url |-> NoUrl, links |-> <<>>]

\* an entry reported under the first link found on the page
PageResult_followed(url, links) ==
    [url |-> IF links = <<>> THEN url ELSE links[1], links |-> links]

\* fetch_links' return value: the url as it was passed in, and the links found
PageResult(url, links) == [url |-> url, links |-> links]

NoRow == [present |-> FALSE, updated_at |-> [k |-> "null", v |-> 0],
          summary |-> "NULL", page_type |-> "NULL", metrics |-> "NULL"]

NewTask(url) ==
    [url |-> url, pc |-> "new", existing |-> NoRow, now |-> 0, nav |-> "none",
     recompute |-> FALSE, ai |-> FALSE, seo |-> FALSE, summary |-> "OMIT",
     page_type |-> "OMIT", upsert |-> "none", fault |-> "none"]

crawlVars == << visited, all_links, root_result, subs, results, link_results, found >>
pageVars  == << sem, tasks, ps_tasks, ps_calls, workers, returned >>
confVars  == << batch, max_links, link_cc, ps_workers, caller, biz, start_url >>
runVars   == << run_pc, gate >>

\* the renders in progress in the process: browsers launched and not yet closed
CrawlRenders(r) ==
    (IF run_pc[r] = "root" THEN 1 ELSE 0)
    + Cardinality({i \in DOMAIN subs[r] : subs[r][i].st = "rendering"})
PageRenders(r) == Cardinality({i \in DOMAIN tasks[r] : tasks[r][i].pc = "rendering"})
RendersOf(r) == CrawlRenders(r) + PageRenders(r)
RECURSIVE SumRenders(_)
SumRenders(R) ==
    IF R = {} THEN 0 ELSE LET r == CHOOSE x \in R : TRUE IN RendersOf(r) + SumRenders(R \ {r})
RendersInProcess(p) == SumRenders({r \in Runs : batch[r] = p})

\* run_pipelines() creates every run() task before it awaits gather(): the
\* tasks of a process all take their first step before any awaited render ends
Started(p) == \A r \in Runs : batch[r] = p => run_pc[r] # "ready"
Live(r) == proc[batch[r]] = "running" /\ Started(batch[r])

\* crawl() up to its first suspension: the render of the root has begun
CrawlEnter(r) ==
    LET root == normalize_url(start_url[r])
    IN  /\ visited' = [visited EXCEPT ![r] = {root}]
        /\ all_links' = [all_links EXCEPT ![r] = <<root>>]
        /\ root_result' = [root_result EXCEPT ![r] = NoResult]
        /\ subs' = [subs EXCEPT ![r] = <<>>]
        /\ results' = [results EXCEPT ![r] = <<>>]
        /\ link_results' = [link_results EXCEPT ![r] = <<>>]
        /\ found' = [found EXCEPT ![r] = << >>]
        /\ run_pc' = [run_pc EXCEPT ![r] = "root"]
        /\ calls' = [calls EXCEPT ![r] = @ \cup {"crawl_render"}]

\* crawl() returns lr to its caller; run() goes on to create the page tasks
AfterCrawl(r, lr) ==
    /\ link_results' = [link_results EXCEPT ![r] = lr]
    /\ IF caller = "run"
       THEN /\ tasks' = [tasks EXCEPT ![r] = [i \in 1..Len(lr) |-> NewTask(lr[i].url)]]
            /\ run_pc' = [run_pc EXCEPT ![r] = "pages"]
       ELSE /\ tasks' = tasks
            /\ run_pc' = [run_pc EXCEPT ![r] = "crawled"]

\* crawl() called on its own
CrawlCall(r) ==
    /\ proc[batch[r]] = "running"
    /\ caller = "direct"
    /\ run_pc[r] = "ready"
    /\ CrawlEnter(r)
    /\ UNCHANGED << clock, store, proc, confVars, fn, pageVars, gate >>

\* the href loop of fetch_links(start_url): navigation has succeeded and the
\* links of the page go into self.visited; the browser is still to be closed
RootLinks(r) ==
    /\ Live(r)
    /\ run_pc[r] = "root"
    /\ 0 \notin DOMAIN found[r]
    /\ TRUE \in NavResults(start_url[r])
    /\ \E hrefs \in Markups(start_url[r]) :
          LET ext == ExtractLinks(hrefs, Netloc(start_url[r]), visited[r], <<>>, max_links)
          IN  /\ visited' = [visited EXCEPT ![r] = ext.visited]
              /\ found' = [found EXCEPT ![r] =
                             [k \in DOMAIN found[r] \cup {0} |->
                                IF k = 0 THEN ext.links ELSE found[r][k]]]
    /\ UNCHANGED << clock, store, proc, confVars, fn, pageVars, runVars, all_links,
                    root_result, subs, results, link_results, calls >>

\* fetch_links(start_url) ends.  Before the href loop it ends by raising: the
\* navigation failed after its retries, or the browser raised.  After the loop
\* browser.close() and the exit of async_playwright() return, and crawl() goes
\* on with the links, or raise, and crawl() raises with self.visited as the
\* loop left it.
RootDone(r) ==
    /\ Live(r)
    /\ run_pc[r] = "root"
    /\ IF 0 \notin DOMAIN found[r]
       THEN /\ \E nav_ok \in NavResults(start_url[r]), fault \in BOOLEAN : ~nav_ok \/ fault
            /\ run_pc' = [run_pc EXCEPT ![r] = "raised"]
            /\ UNCHANGED << crawlVars, tasks >>
       ELSE \E close_ok \in BOOLEAN :
              LET rr == PageResult(start_url[r], found[r][0])
                  sl == CapSubLinks(found[r][0], max_links)
              IN  /\ found' = [found EXCEPT ![r] = [k \in DOMAIN found[r] \ {0} |-> found[r][k]]]
                  /\ UNCHANGED << visited, all_links, results >>
                  /\ IF ~close_ok
                     THEN /\ run_pc' = [run_pc EXCEPT ![r] = "raised"]
                          /\ UNCHANGED << root_result, subs, link_results, tasks >>
                     ELSE /\ root_result' = [root_result EXCEPT ![r] = rr]
                          /\ subs' = [subs EXCEPT ![r] =
                                        [i \in 1..Len(sl) |-> [url |-> sl[i], st |-> "pending"]]]
                          /\ IF sl = <<>>
                             THEN AfterCrawl(r, <<rr>>)
                             ELSE /\ run_pc' = [run_pc EXCEPT ![r] = "subs"]
                                  /\ UNCHANGED << link_results, tasks >>
    /\ UNCHANGED << clock, store, proc, confVars, fn, sem, ps_tasks, ps_calls, workers, returned,
                    calls, gate >>

\* a fetch_and_store task starts: fetch_links(url) launches its browser
SubStart(r, i) ==
    /\ Live(r)
    /\ run_pc[r] = "subs"
    /\ i \in DOMAIN subs[r]
    /\ subs[r][i].st = "pending"
    /\ subs' = [subs EXCEPT ![r][i].st = "rendering"]
    /\ calls' = [calls EXCEPT ![r] = @ \cup {"crawl_render"}]
    /\ UNCHANGED << clock, store, proc, confVars, fn, pageVars, runVars, visited,
                    all_links, found, root_result, results, link_results >>

\* a test that leaves the last place of the result unused
HasRoom_strict(r) == Len(all_links[r]) + Len(results[r]) + 1 < max_links

\* the test of fetch_and_store under the lock
HasRoom(r) == Len(all_links[r]) + Len(results[r]) < max_links

\* the href loop of a fetch_and_store task's fetch_links: the links of the
\* page go into the self.visited all the tasks share
SubLinks(r, i) ==
    /\ Live(r)
    /\ run_pc[r] = "subs"
    /\ i \in DOMAIN subs[r]
    /\ subs[r][i].st = "rendering"
    /\ i \notin DOMAIN found[r]
    /\ TRUE \in NavResults(subs[r][i].url)
    /\ \E hrefs \in Markups(subs[r][i].url) :
          LET ext == ExtractLinks(hrefs, Netloc(subs[r][i].url), visited[r], <<>>, max_links)
          IN  /\ visited' = [visited EXCEPT ![r] = ext.visited]
              /\ found' = [found EXCEPT ![r] =
                             [k \in DOMAIN found[r] \cup {i} |->
                                IF k = i THEN ext.links ELSE found[r][k]]]
    /\ UNCHANGED << clock, store, proc, confVars, fn, pageVars, runVars, all_links,
                    root_result, subs, results, link_results, calls >>

\* a fetch_and_store task ends: its fetch_links raised, before the href loop
\* or at the close after it, and the exception is ignored; or it returned and
\* the page is stored if the result has room
SubDone(r, i) ==
    /\ Live(r)
    /\ run_pc[r] = "subs"
    /\ i \in DOMAIN subs[r]
    /\ subs[r][i].st = "rendering"
    /\ IF i \notin DOMAIN found[r]
       THEN /\ \E nav_ok \in NavResults(subs[r][i].url), fault \in BOOLEAN : ~nav_ok \/ fault
            /\ subs' = [subs EXCEPT ![r][i].st = "failed"]
            /\ UNCHANGED << results, found >>
       ELSE \E close_ok \in BOOLEAN :
              /\ found' = [found EXCEPT ![r] = [k \in DOMAIN found[r] \ {i} |-> found[r][k]]]
              /\ IF ~close_ok
                 THEN /\ subs' = [subs EXCEPT ![r][i].st = "failed"]
                      /\ results' = results
                 ELSE IF HasRoom(r)
                      THEN /\ results' = [results EXCEPT ![r] =
                                            Append(@, PageResult(subs[r][i].url, found[r][i]))]
                           /\ subs' = [subs EXCEPT ![r][i].st = "stored"]
                      ELSE /\ results' = results
                           /\ subs' = [subs EXCEPT ![r][i].st = "dropped"]
    /\ UNCHANGED << clock, store, proc, confVars, fn, pageVars, runVars, visited, all_links,
                    root_result, link_results, calls >>

\* gather() over the fetch_and_store tasks completes and crawl() returns
CrawlReturn(r) ==
    /\ Live(r)
    /\ run_pc[r] = "subs"
    /\ \A i \in DOMAIN subs[r] : subs[r][i].st \in {"stored", "dropped", "failed"}
    /\ AfterCrawl(r, <<root_result[r]>> \o results[r])
    /\ UNCHANGED << clock, store, proc, confVars, fn, visited, all_links, found, root_result,
                    subs, results, sem, ps_tasks, ps_calls, workers, returned, calls, gate >>

MaxLinks == 3

EmptyRun(v) == [r \in Runs |-> v]

\* crawl() called on its own on the site "http://c/", any max_links from 1 on
InitCrawl ==
    /\ clock = 0
    /\ store = << >>
    /\ proc = [p \in Procs |-> "running"]
    /\ batch = [r \in Runs |-> "p1"]
    /\ max_links \in 1..MaxLinks
    /\ link_cc = 2
    /\ ps_workers = 4
    /\ fn = [op |-> "none"]
    /\ caller = "direct"
    /\ biz = [r \in Runs |-> "c"]
    /\ start_url = [r \in Runs |-> StartC]
    /\ run_pc = [r \in Runs |-> IF r = "r1" THEN "ready" ELSE "off"]
    /\ gate = EmptyRun("none")
    /\ visited = EmptyRun({})
    /\ all_links = EmptyRun(<<>>)
    /\ root_result = EmptyRun(NoResult)
    /\ subs = EmptyRun(<<>>)
    /\ results = EmptyRun(<<>>)
    /\ link_results = EmptyRun(<<>>)
    /\ found = EmptyRun(<< >>)
    /\ workers = {}
    /\ returned = EmptyRun(<< >>)
    /\ sem = EmptyRun(2)
    /\ tasks = EmptyRun(<<>>)
    /\ ps_tasks = EmptyRun(<< >>)
    /\ ps_calls = EmptyRun(<< >>)
    /\ calls = EmptyRun({})

NextCrawl ==
    \E r \in Runs :
        \/ CrawlCall(r)
        \/ RootLinks(r)
        \/ RootDone(r)
        \/ \E i \in 1..(MaxLinks + 1) : SubStart(r, i)
        \/ \E i \in 1..(MaxLinks + 1) : SubLinks(r, i)
        \/ \E i \in 1..(MaxLinks + 1) : SubDone(r, i)
        \/ CrawlReturn(r)

SpecCrawl == InitCrawl /\ [][NextCrawl]_vars

(***************************************************************************)
(* StorageClient: table business_pages                                     *)
(***************************************************************************)
TWENTY_FOUR_HOURS == 24
SEVEN_DAYS == 168

Ts(n) == [k |-> "ts", v |-> n]
NullTs == [k |-> "null", v |-> 0]
\* a stored value that datetime.fromisoformat rejects
BadTs(n) == [k |-> "bad", v |-> n]

RowsOf(b) == {key \in DOMAIN store : key[1] = b}

\* .order("updated_at", desc=True).limit(1): the updated_at of the first row;
\* the database puts NULLs first or last as the request asks (nulls_first)
FirstUpdatedAt(b, nulls_first) ==
    LET keys  == RowsOf(b)
        nulls == {key \in keys : store[key].updated_at.k = "null"}
        rest  == keys \ nulls
        top   == CHOOSE key \in rest :
                    \A o \in rest : store[o].updated_at.v <= store[key].updated_at.v
    IN  IF nulls # {} /\ (nulls_first \/ rest = {}) THEN NullTs
        ELSE store[top].updated_at

\* business_pages_recently_updated, with the comparison of the window reversed
business_pages_recently_updated_reversed(b, query_ok, nulls_first, now) ==
    IF ~query_ok \/ RowsOf(b) = {} THEN FALSE
    ELSE LET ts == FirstUpdatedAt(b, nulls_first)
         IN  IF ts.k # "ts" THEN FALSE
             ELSE (now - ts.v) >= TWENTY_FOUR_HOURS

\* business_pages_recently_updated: False when the query or the parse raises
business_pages_recently_updated(b, query_ok, nulls_first, now) ==
    IF ~query_ok \/ RowsOf(b) = {} THEN FALSE
    ELSE LET ts == FirstUpdatedAt(b, nulls_first)
         IN  IF ts.k # "ts" THEN FALSE
             ELSE (now - ts.v) < TWENTY_FOUR_HOURS

\* get_business_page: the row, or None when there is none or the query raises
get_business_page(b, url, query_ok) ==
    IF query_ok /\ << b, url >> \in DOMAIN store THEN store[<< b, url >>] ELSE NoRow

\* the upsert that stamps updated_at only when the AI fields were recomputed
Upserted_ts_kept(b, t, now) ==
    LET key == << b, t.url >>
        old == IF key \in DOMAIN store THEN store[key] ELSE NoRow
        new == [present    |-> TRUE,
                updated_at |-> IF t.ai THEN [k |-> "ts", v |-> now] ELSE old.updated_at,
                summary    |-> IF t.summary = "OMIT" THEN old.summary ELSE t.summary,
                page_type  |-> IF t.page_type = "OMIT" THEN old.page_type ELSE t.page_type,
                metrics    |-> "new"]
    IN  [k \in DOMAIN store \cup {key} |-> IF k = key THEN new ELSE store[k]]

\* insert_business_page: the upsert on (business_id, url); a column the record
\* leaves out keeps its stored value.  metrics stands for the columns every
\* record carries: email, seo_score, seo_explanation, page_speed_score and
\* time_to_interactive_ms, "new" once a run has written them
Upserted(b, t, now) ==
    LET key == << b, t.url >>
        old == IF key \in DOMAIN store THEN store[key] ELSE NoRow
        new == [present    |-> TRUE,
                updated_at |-> Ts(now),
                summary    |-> IF t.summary = "OMIT" THEN old.summary ELSE t.summary,
                page_type  |-> IF t.page_type = "OMIT" THEN old.page_type ELSE t.page_type,
                metrics    |-> "new"]
    IN  [k \in DOMAIN store \cup {key} |-> IF k = key THEN new ELSE store[k]]

(***************************************************************************)
(* BusinessPipeline.run and process_link                                   *)
(***************************************************************************)
\* a gate that always recomputes
recompute_ai_always(existing, now) == TRUE

\* the weekly gate with > in place of >=
recompute_ai_strict(existing, now) ==
    IF existing.present /\ existing.updated_at.k # "null"
    THEN IF existing.updated_at.k = "bad" THEN TRUE
         ELSE (now - existing.updated_at.v) > SEVEN_DAYS
    ELSE TRUE

\* the weekly gate of process_link
recompute_ai(existing, now) ==
    IF existing.present /\ existing.updated_at.k # "null"
    THEN IF existing.updated_at.k = "bad" THEN TRUE
         ELSE (now - existing.updated_at.v) >= SEVEN_DAYS
    ELSE TRUE

\* what the gate came to: the query raised, or the rows are fresh or stale
GateOutcome(b, query_ok, nulls_first, now) ==
    IF ~query_ok THEN "error"
    ELSE IF business_pages_recently_updated(b, query_ok, nulls_first, now)
         THEN "fresh" ELSE "stale"

\* run() that goes on to crawl() whatever the business gate returns
RunStart_ignoring_gate(r) ==
    /\ proc[batch[r]] = "running"
    /\ caller = "run"
    /\ run_pc[r] = "ready"
    /\ \E query_ok \in BOOLEAN, nulls_first \in BOOLEAN :
          /\ gate' = [gate EXCEPT ![r] = GateOutcome(biz[r], query_ok, nulls_first, clock)]
          /\ CrawlEnter(r)
    /\ UNCHANGED << clock, store, proc, confVars, fn, pageVars >>

\* run() up to its first suspension: the business gate, then crawl()
RunStart(r) ==
    /\ proc[batch[r]] = "running"
    /\ caller = "run"
    /\ run_pc[r] = "ready"
    /\ \E query_ok \in BOOLEAN, nulls_first \in BOOLEAN :
          /\ gate' = [gate EXCEPT ![r] = GateOutcome(biz[r], query_ok, nulls_first, clock)]
          /\ IF business_pages_recently_updated(biz[r], query_ok, nulls_first, clock)
             THEN /\ run_pc' = [run_pc EXCEPT ![r] = "skipped"]
                  /\ UNCHANGED << crawlVars, calls >>
             ELSE CrawlEnter(r)
    /\ UNCHANGED << clock, store, proc, confVars, fn, pageVars >>

Waiting(r) == {j \in DOMAIN tasks[r] : tasks[r][j].pc = "waiting"}

\* process_link up to its first suspension: the stored row is read, then the
\* render slot is taken, or the task queues for it.  The event loop starts the
\* tasks of gather() in their order.
PageStart(r, i) ==
    /\ Live(r)
    /\ run_pc[r] = "pages"
    /\ i \in DOMAIN tasks[r]
    /\ tasks[r][i].pc = "new"
    /\ \A j \in 1..(i - 1) : tasks[r][j].pc # "new"
    /\ \E query_ok \in BOOLEAN :
          LET t == [tasks[r][i] EXCEPT
                      !.existing = get_business_page(biz[r], tasks[r][i].url, query_ok),
                      !.now = clock]
          IN  IF sem[r] > 0 /\ Waiting(r) = {}
              THEN /\ sem' = [sem EXCEPT ![r] = @ - 1]
                   /\ tasks' = [tasks EXCEPT ![r][i] = [t EXCEPT !.pc = "rendering"]]
                   /\ calls' = [calls EXCEPT ![r] = @ \cup {"page_render"}]
              ELSE /\ sem' = sem
                   /\ tasks' = [tasks EXCEPT ![r][i] = [t EXCEPT !.pc = "waiting"]]
                   /\ calls' = calls
    /\ UNCHANGED << clock, store, proc, confVars, fn, crawlVars, runVars, ps_tasks, ps_calls, workers, returned >>

\* a queued task gets the render slot a finished render gave back
PageAcquire(r, i) ==
    /\ Live(r)
    /\ run_pc[r] = "pages"
    /\ i \in DOMAIN tasks[r]
    /\ tasks[r][i].pc = "waiting"
    /\ sem[r] > 0
    /\ sem' = [sem EXCEPT ![r] = @ - 1]
    /\ tasks' = [tasks EXCEPT ![r][i].pc = "rendering"]
    /\ calls' = [calls EXCEPT ![r] = @ \cup {"page_render"}]
    /\ UNCHANGED << clock, store, proc, confVars, fn, crawlVars, runVars, ps_tasks, ps_calls, workers, returned >>

\* the urls of the pages the crawls of a, b return
PageUrls == {StartA, StartB}

\* _schedule_pagespeed, which starts an audit whether or not one is stored
schedule_pagespeed_always(r, url) ==
    [tasks |-> [u \in DOMAIN ps_tasks[r] \cup {url} |-> IF u = url THEN "pending" ELSE ps_tasks[r][u]],
     calls |-> [u \in DOMAIN ps_calls[r] \cup {url} |->
                  IF u = url THEN (IF u \in DOMAIN ps_calls[r] THEN ps_calls[r][u] + 1 ELSE 1)
                  ELSE ps_calls[r][u]]]

\* _schedule_pagespeed: the stored task of the url, or a new one
schedule_pagespeed(r, url) ==
    IF url \in DOMAIN ps_tasks[r]
    THEN [tasks |-> ps_tasks[r], calls |-> ps_calls[r]]
    ELSE [tasks |-> [u \in DOMAIN ps_tasks[r] \cup {url} |->
                       IF u = url THEN "pending" ELSE ps_tasks[r][u]],
          calls |-> [u \in DOMAIN ps_calls[r] \cup {url} |->
                       IF u = url THEN 1 ELSE ps_calls[r][u]]]

\* a task that writes a value of its own over the one it read
Preserved_overwritten(value) == "new"

\* the AI field of the record when the gate reuses it: the value read, or no
\* field at all when the value read is None
Preserved(value) == IF value = "NULL" THEN "OMIT" ELSE value

\* process_link from the render to `await ps_task`
Analysed(t, nav_ok) ==
    LET rc == recompute_ai(t.existing, t.now)
    IN  [t EXCEPT !.pc = "awaitps",
                  !.nav = IF nav_ok THEN "ok" ELSE "failed",
                  !.recompute = rc,
                  !.ai = rc,
                  !.seo = TRUE,
                  !.summary = IF rc THEN "new" ELSE Preserved(t.existing.summary),
                  !.page_type = IF rc THEN "new" ELSE Preserved(t.existing.page_type)]

AnalysisCalls(t) ==
    (IF t.ai THEN {"summarize", "classify"} ELSE {}) \cup {"seo", "pagespeed"}

\* `await ps_task` that resumes whatever the state of the audit
AuditDone_any(audit) == TRUE

\* `await ps_task`: the task resumes once the audit has returned or raised
AuditDone(audit) == audit \in {"ok", "err"}

\* a task that goes on to its upsert whatever the audit did
Finished_ignoring_error(t, audit, db_ok) ==
    [t EXCEPT !.pc = "done", !.upsert = IF db_ok THEN "ok" ELSE "failed"]

\* process_link after `await ps_task`: the audit's error ends the task, its
\* metrics lead to the upsert, whose own failure is only logged
Finished(t, audit, db_ok) ==
    IF audit = "err" THEN [t EXCEPT !.pc = "failed", !.fault = "pagespeed"]
    ELSE [t EXCEPT !.pc = "done", !.upsert = IF db_ok THEN "ok" ELSE "failed"]

\* the except clause of process_link
PageFailed(t, why) == [t EXCEPT !.pc = "failed", !.fault = why]

\* a render section that keeps its permit when it is left by an exception
Released_leak(r, fault) == IF fault THEN sem[r] ELSE sem[r] + 1

\* `async with self._render_semaphore` is left: the permit goes back, whether
\* the block ended or raised
Released(r, fault) == sem[r] + 1

\* the render of a page task ends; the task runs on to its next suspension.
\* Every task of the run has started by then: none suspends before the
\* browser launch of the first one.
PageRendered(r, i) ==
    /\ Live(r)
    /\ run_pc[r] = "pages"
    /\ i \in DOMAIN tasks[r]
    /\ tasks[r][i].pc = "rendering"
    /\ \A j \in DOMAIN tasks[r] : tasks[r][j].pc # "new"
    /\ \E nav_ok \in NavResults(tasks[r][i].url), fault \in BOOLEAN, db_ok \in BOOLEAN :
          LET t0    == tasks[r][i]
              t1    == Analysed(t0, nav_ok)
              sched == schedule_pagespeed(r, t0.url)
              audit == sched.tasks[t0.url]
          IN  /\ sem' = [sem EXCEPT ![r] = Released(r, fault)]
              /\ IF fault
                 THEN /\ tasks' = [tasks EXCEPT ![r][i] = PageFailed(t0, "render")]
                      /\ UNCHANGED << ps_tasks, ps_calls, calls, store >>
                 ELSE /\ ps_tasks' = [ps_tasks EXCEPT ![r] = sched.tasks]
                      /\ ps_calls' = [ps_calls EXCEPT ![r] = sched.calls]
                      /\ IF ~AuditDone(audit)
                         THEN /\ tasks' = [tasks EXCEPT ![r][i] = t1]
                              /\ calls' = [calls EXCEPT ![r] = @ \cup AnalysisCalls(t1)]
                              /\ store' = store
                         ELSE /\ tasks' = [tasks EXCEPT ![r][i] = Finished(t1, audit, db_ok)]
                              /\ calls' = [calls EXCEPT ![r] = @ \cup AnalysisCalls(t1)
                                              \cup (IF audit = "ok" THEN {"upsert"} ELSE {})]
                              /\ store' = IF audit = "ok" /\ db_ok
                                          THEN Upserted(biz[r], t1, clock) ELSE store
    /\ UNCHANGED << clock, proc, confVars, fn, crawlVars, runVars, workers, returned >>

\* a pool of its own for every pipeline
RunningAudits_per_pipeline(r) == {k \in workers : k[1] = r}

\* the calls the worker threads of the pool of pipeline r are executing:
\* _PAGESPEED_POOL is an attribute of the class, made by the first pipeline
\* of the process and used by all of them
RunningAudits(r) == {k \in workers : batch[k[1]] = batch[r]}

\* run_in_executor: a worker thread of the pool takes the queued call.  The
\* pool is no part of the event loop: after asyncio.run() was aborted a
\* thread still takes a call that was queued and not withdrawn yet.
PsStart(r, url) ==
    /\ url \in DOMAIN ps_tasks[r]
    /\ ps_tasks[r][url] = "pending"
    /\ Cardinality(RunningAudits(r)) < ps_workers
    /\ ps_tasks' = [ps_tasks EXCEPT ![r][url] = "running"]
    /\ workers' = workers \cup {<< r, url >>}
    /\ UNCHANGED << clock, store, proc, confVars, fn, crawlVars, runVars, sem, tasks,
                    ps_calls, returned, calls >>

\* analyze_page returns or raises in its pool thread: the worker is idle again
\* and the outcome waits for the event loop, which learns of it through
\* call_soon_threadsafe.  The task of the audit is not done yet.
PsReturn(r, url) ==
    /\ << r, url >> \in workers
    /\ ps_tasks[r][url] = "running"
    /\ workers' = workers \ {<< r, url >>}
    /\ \E ok \in BOOLEAN :
          returned' = [returned EXCEPT ![r] =
                         [u \in DOMAIN returned[r] \cup {url} |->
                            IF u = url THEN (IF ok THEN "ok" ELSE "err") ELSE returned[r][u]]]
    /\ UNCHANGED << clock, store, proc, confVars, fn, crawlVars, runVars, sem, tasks,
                    ps_tasks, ps_calls, calls >>

\* the event loop hands the outcome to run_in_pool, which resumes and ends:
\* the task in _pagespeed_tasks is done.  The page tasks suspended on it
\* resume in later turns of the loop.
PsDone(r, url) ==
    /\ Live(r)
    /\ url \in DOMAIN ps_tasks[r]
    /\ ps_tasks[r][url] = "running"
    /\ url \in DOMAIN returned[r]
    /\ ps_tasks' = [ps_tasks EXCEPT ![r][url] = returned[r][url]]
    /\ returned' = [returned EXCEPT ![r] = [u \in DOMAIN returned[r] \ {url} |-> returned[r][u]]]
    /\ UNCHANGED << clock, store, proc, confVars, fn, crawlVars, runVars, sem, tasks,
                    ps_calls, workers, calls >>

\* a page task resumes from `await ps_task`
PageResume(r, i) ==
    /\ Live(r)
    /\ run_pc[r] = "pages"
    /\ i \in DOMAIN tasks[r]
    /\ tasks[r][i].pc = "awaitps"
    /\ AuditDone(ps_tasks[r][tasks[r][i].url])
    /\ \E db_ok \in BOOLEAN :
          LET t     == tasks[r][i]
              audit == ps_tasks[r][t.url]
          IN  /\ tasks' = [tasks EXCEPT ![r][i] = Finished(t, audit, db_ok)]
              /\ calls' = [calls EXCEPT ![r] = @ \cup (IF audit = "ok" THEN {"upsert"} ELSE {})]
              /\ store' = IF audit = "ok" /\ db_ok THEN Upserted(biz[r], t, clock) ELSE store
    /\ UNCHANGED << clock, proc, confVars, fn, crawlVars, runVars, sem, ps_tasks, ps_calls, workers, returned >>

\* run() when process_link lets its exception out: gather() re-raises the first
RunReturn_propagating(r) ==
    /\ Live(r)
    /\ run_pc[r] = "pages"
    /\ IF \E i \in DOMAIN tasks[r] : tasks[r][i].pc = "failed"
       THEN run_pc' = [run_pc EXCEPT ![r] = "raised"]
       ELSE /\ \A i \in DOMAIN tasks[r] : tasks[r][i].pc \in {"done", "failed"}
            /\ run_pc' = [run_pc EXCEPT ![r] = "returned"]
    /\ UNCHANGED << clock, store, proc, confVars, fn, crawlVars, pageVars, calls, gate >>

\* gather() over the page tasks completes and run() returns
RunReturn(r) ==
    /\ Live(r)
    /\ run_pc[r] = "pages"
    /\ \A i \in DOMAIN tasks[r] : tasks[r][i].pc \in {"done", "failed"}
    /\ run_pc' = [run_pc EXCEPT ![r] = "returned"]
    /\ UNCHANGED << clock, store, proc, confVars, fn, crawlVars, pageVars, calls, gate >>

(***************************************************************************)
(* run_pipelines under asyncio.run                                         *)
(***************************************************************************)
Cancelled(pc, live) == IF pc \in live THEN "cancelled" ELSE pc

\* gather() re-raises the exception of a run(): run_pipelines() ends and
\* asyncio.run() calls cancel() on every task the process still has.  The
\* tasks then leave one at a time, in the steps below.
ProcAbort(p) ==
    /\ proc[p] = "running"
    /\ caller = "run"
    /\ \E r \in Runs : batch[r] = p /\ run_pc[r] = "raised"
    /\ proc' = [proc EXCEPT ![p] = "aborted"]
    /\ UNCHANGED << clock, store, confVars, fn, crawlVars, pageVars, runVars, calls >>

\* a cancelled process_link task ends; one inside its render leaves
\* `async with self._render_semaphore`, which gives the permit back.  The
\* CancelledError ends the task as a cancelled one, unless an exception takes
\* its place on the way out of the render: `page` is unbound in the finally
\* clause of a task cancelled before new_page() returned, or a close or the
\* exit of async_playwright() raises.  The except clause of process_link
\* catches that exception and the task ends as a failed one.  The
\* cancellation of its run() was requested together with its own and may
\* show in the same step.
TaskCancelled(r, i) ==
    /\ proc[batch[r]] = "aborted"
    /\ i \in DOMAIN tasks[r]
    /\ tasks[r][i].pc \in {"new", "waiting", "rendering", "awaitps"}
    /\ \E replaced \in BOOLEAN :
          /\ replaced => tasks[r][i].pc = "rendering"
          /\ tasks' = [tasks EXCEPT ![r][i] =
                         IF replaced THEN PageFailed(@, "render")
                         ELSE [@ EXCEPT !.pc = "cancelled"]]
    /\ sem' = [sem EXCEPT ![r] = IF tasks[r][i].pc = "rendering" THEN @ + 1 ELSE @]
    /\ \E seen \in BOOLEAN :
          run_pc' = [run_pc EXCEPT ![r] =
                       IF seen THEN Cancelled(@, {"ready", "root", "subs", "pages"}) ELSE @]
    /\ UNCHANGED << clock, store, proc, confVars, fn, crawlVars, gate, ps_tasks, ps_calls,
                    workers, returned, calls >>

\* a cancelled fetch_and_store task ends; the links its href loop put into
\* self.visited stay there.  When the exit of async_playwright() raises in a
\* task cancelled inside its render, that exception takes the place of the
\* CancelledError, fetch_and_store ignores it and the task ends as a failed
\* one.
SubCancelled(r, i) ==
    /\ proc[batch[r]] = "aborted"
    /\ i \in DOMAIN subs[r]
    /\ subs[r][i].st \in {"pending", "rendering"}
    /\ \E replaced \in BOOLEAN :
          /\ replaced => subs[r][i].st = "rendering"
          /\ subs' = [subs EXCEPT ![r][i].st = IF replaced THEN "failed" ELSE "cancelled"]
    /\ found' = [found EXCEPT ![r] = [k \in DOMAIN found[r] \ {i} |-> found[r][k]]]
    /\ \E seen \in BOOLEAN :
          run_pc' = [run_pc EXCEPT ![r] =
                       IF seen THEN Cancelled(@, {"ready", "root", "subs", "pages"}) ELSE @]
    /\ UNCHANGED << clock, store, proc, confVars, fn, pageVars, gate, visited, all_links,
                    root_result, results, link_results, calls >>

\* the cancelled run() task is seen to end; a render of the root it was in
\* is given up.  When the exit of async_playwright() raises in that render,
\* the exception takes the place of the CancelledError and leaves crawl() and
\* run(): the run ends as one that raised.
RunCancelled(r) ==
    /\ proc[batch[r]] = "aborted"
    /\ run_pc[r] \in {"ready", "root", "subs", "pages"}
    /\ \E replaced \in BOOLEAN :
          /\ replaced => run_pc[r] = "root"
          /\ run_pc' = [run_pc EXCEPT ![r] = IF replaced THEN "raised" ELSE "cancelled"]
    /\ found' = [found EXCEPT ![r] = [k \in DOMAIN found[r] \ {0} |-> found[r][k]]]
    /\ UNCHANGED << clock, store, proc, confVars, fn, pageVars, gate, visited, all_links,
                    root_result, subs, results, link_results, calls >>

\* the cancelled task of an audit ends.  A call still in the queue of the pool
\* is withdrawn; a call a worker thread is executing goes on in its thread;
\* the outcome of a call that has returned is dropped.
AuditCancelled(r, url) ==
    /\ proc[batch[r]] = "aborted"
    /\ url \in DOMAIN ps_tasks[r]
    /\ ps_tasks[r][url] \in {"pending", "running"}
    /\ ps_tasks' = [ps_tasks EXCEPT ![r][url] = "cancelled"]
    /\ returned' = [returned EXCEPT ![r] = [u \in DOMAIN returned[r] \ {url} |-> returned[r][u]]]
    /\ UNCHANGED << clock, store, proc, confVars, fn, crawlVars, runVars, sem, tasks,
                    ps_calls, workers, calls >>

\* analyze_page ends in its thread after its task was cancelled: the result
\* goes nowhere and the worker is idle again
WorkerExit(r, url) ==
    /\ << r, url >> \in workers
    /\ ps_tasks[r][url] = "cancelled"
    /\ workers' = workers \ {<< r, url >>}
    /\ UNCHANGED << clock, store, proc, confVars, fn, crawlVars, runVars, sem, tasks,
                    ps_tasks, ps_calls, returned, calls >>

MaxTicks == 1

\* time passes
Tick ==
    /\ clock < MaxTicks * TWENTY_FOUR_HOURS
    /\ clock' = clock + TWENTY_FOUR_HOURS
    /\ UNCHANGED << store, proc, confVars, fn, crawlVars, pageVars, runVars, calls >>

link_cc_default == 2
ps_cc_default == 4
DefaultMaxLinks == 20

\* no pure function is under study
NoCall == [op |-> "none"]

\* the state after construction, up to the businesses, processes and rows
InitWith(bizs, procs, cc, pw, rows) ==
    /\ clock = 0
    /\ ps_workers = pw
    /\ store = rows
    /\ proc = [p \in Procs |-> "running"]
    /\ batch = procs
    /\ biz = bizs
    /\ start_url = [r \in Runs |-> BusinessUrl(bizs[r])]
    /\ max_links = DefaultMaxLinks
    /\ link_cc = cc
    /\ caller = "run"
    /\ gate = EmptyRun("none")
    /\ visited = EmptyRun({})
    /\ all_links = EmptyRun(<<>>)
    /\ root_result = EmptyRun(NoResult)
    /\ subs = EmptyRun(<<>>)
    /\ results = EmptyRun(<<>>)
    /\ link_results = EmptyRun(<<>>)
    /\ found = EmptyRun(<< >>)
    /\ workers = {}
    /\ returned = EmptyRun(<< >>)
    /\ sem = EmptyRun(cc)
    /\ tasks = EmptyRun(<<>>)
    /\ ps_tasks = EmptyRun(<< >>)
    /\ ps_calls = EmptyRun(<< >>)
    /\ calls = EmptyRun({})

\* the pool sizes PAGESPEED_CONCURRENCY_PER_PROCESS is set to
MaxPsWorkers == 2

\* one process runs the businesses a and b; business_pages is empty
Init ==
    /\ \E cc \in 1..link_cc_default, pw \in 1..MaxPsWorkers :
          InitWith([r \in Runs |-> IF r = "r1" THEN "a" ELSE "b"],
                   [r \in Runs |-> "p1"], cc, pw, << >>)
    /\ run_pc = EmptyRun("ready")
    /\ fn = NoCall

RunNext(r) ==
    \/ RunStart(r)
    \/ RootLinks(r)
    \/ RootDone(r)
    \/ SubStart(r, 1)
    \/ SubLinks(r, 1)
    \/ SubDone(r, 1)
    \/ CrawlReturn(r)
    \/ \E i \in 1..2 : PageStart(r, i)
    \/ \E i \in 1..2 : PageAcquire(r, i)
    \/ \E i \in 1..2 : PageRendered(r, i)
    \/ \E u \in PageUrls : PsStart(r, u)
    \/ \E u \in PageUrls : PsReturn(r, u)
    \/ \E u \in PageUrls : PsDone(r, u)
    \/ \E i \in 1..2 : PageResume(r, i)
    \/ RunReturn(r)

\* the batch is over within the hour: the clock stands still
Next ==
    \/ \E r \in Runs : RunNext(r)
    \/ \E p \in Procs : ProcAbort(p)
    \/ \E r \in Runs : \E i \in 1..2 : TaskCancelled(r, i)
    \/ \E r \in Runs : SubCancelled(r, 1)
    \/ \E r \in Runs : RunCancelled(r)
    \/ \E r \in Runs : \E u \in PageUrls : AuditCancelled(r, u)
    \/ \E r \in Runs : \E u \in PageUrls : WorkerExit(r, u)

Spec == Init /\ [][Next]_vars

\* the caller awaits run() once more on a pipeline whose run() has ended.
\* __init__ is not executed again: the semaphore and _pagespeed_tasks stay as
\* the earlier invocation left them.  tasks, calls and ps_calls describe the
\* invocation in progress and start again from nothing.
RunAgain(r) ==
    /\ proc[batch[r]] = "running"
    /\ caller = "run"
    /\ run_pc[r] \in {"returned", "skipped"}
    /\ run_pc' = [run_pc EXCEPT ![r] = "ready"]
    /\ gate' = [gate EXCEPT ![r] = "none"]
    /\ tasks' = [tasks EXCEPT ![r] = <<>>]
    /\ calls' = [calls EXCEPT ![r] = {}]
    /\ ps_calls' = [ps_calls EXCEPT ![r] = << >>]
    /\ UNCHANGED << clock, store, proc, confVars, fn, crawlVars, sem, ps_tasks, workers, returned >>

\* one pipeline object of business b, whose run() the caller may repeat
InitRerun ==
    /\ InitWith([r \in Runs |-> "b"], [r \in Runs |-> "p1"], link_cc_default,
                ps_cc_default, << >>)
    /\ run_pc = [r \in Runs |-> IF r = "r1" THEN "ready" ELSE "off"]
    /\ fn = NoCall

NextRerun ==
    \/ \E r \in Runs :
          \/ RunStart(r)
          \/ RootLinks(r)
          \/ RootDone(r)
          \/ PageStart(r, 1)
          \/ PageRendered(r, 1)
          \/ PsStart(r, StartB)
          \/ PsReturn(r, StartB)
          \/ PsDone(r, StartB)
          \/ PageResume(r, 1)
          \/ RunReturn(r)
          \/ RunAgain(r)
    \/ \E p \in Procs : ProcAbort(p)
    \/ Tick

SpecRerun == InitRerun /\ [][NextRerun]_vars

\* business b is triggered twice, each trigger a process of its own
InitRetrigger ==
    /\ InitWith([r \in Runs |-> "b"],
                [r \in Runs |-> IF r = "r1" THEN "p1" ELSE "p2"], link_cc_default,
                ps_cc_default, << >>)
    /\ run_pc = EmptyRun("ready")
    /\ fn = NoCall

\* the steps of a run on a site of one page
NextRetrigger ==
    \/ \E r \in Runs :
          \/ RunStart(r)
          \/ RootLinks(r)
          \/ RootDone(r)
          \/ PageStart(r, 1)
          \/ PageRendered(r, 1)
          \/ PsStart(r, StartB)
          \/ PsReturn(r, StartB)
          \/ PsDone(r, StartB)
          \/ PageResume(r, 1)
          \/ RunReturn(r)
    \/ \E p \in Procs : ProcAbort(p)
    \/ Tick

SpecRetrigger == InitRetrigger /\ [][NextRetrigger]_vars

\* a stored row, as an earlier run left it
Row(ts, summary, page_type) ==
    [present |-> TRUE, updated_at |-> ts, summary |-> summary, page_type |-> page_type,
     metrics |-> "old"]

\* the row of "http://a" before the run: none, or one that is 3, 7 or 10 days
\* old, or whose updated_at is NULL or does not parse
SeedRows ==
    {Row(Ts(0 - age), "old", "old") : age \in {72, 168, 240}}
    \cup {Row(NullTs, "old", "old"), Row(BadTs(0 - 72), "old", "old"),
          Row(Ts(0 - 72), "NULL", "old")}

SeedStores == {<< >>} \cup {[key \in {<< "a", StartA >>} |-> row] : row \in SeedRows}

\* one run of business a, over every stored row of its page
InitGate ==
    /\ \E cc \in 1..link_cc_default, rows \in SeedStores :
          InitWith([r \in Runs |-> "a"], [r \in Runs |-> "p1"], cc, ps_cc_default, rows)
    /\ run_pc = [r \in Runs |-> IF r = "r1" THEN "ready" ELSE "off"]
    /\ fn = NoCall

NextGate ==
    \/ \E r \in Runs : RunNext(r)
    \/ \E p \in Procs : ProcAbort(p)
    \/ Tick

SpecGate == InitGate /\ [][NextGate]_vars

\* every variable but fn
progVars == << clock, store, proc, confVars, crawlVars, pageVars, runVars, calls >>

\* no pipeline runs: the state around the call of a pure function
InitIdle ==
    /\ InitWith([r \in Runs |-> "c"], [r \in Runs |-> "p1"], link_cc_default,
                ps_cc_default, << >>)
    /\ run_pc = EmptyRun("off")

(***************************************************************************)
(* safe_goto on its own: one render's navigation, in fetch_links and in    *)
(* process_link                                                            *)
(***************************************************************************)
\* process_link.safe_goto: the same loop, returning the page's HTML or None
page_safe_goto(url, outs) == SafeGotoFrom(0, url, outs, [tried |-> <<>>, slept |-> <<>>])

\* "https://b/x", "https://b:443/" and "HTTPS://b/", next to the sites' roots
GotoUrls ==
    {StartB, StartC,
     Url("https", "b", "", <<"/", "x">>, <<>>, <<>>),
     Url("https", "b", "443", <<"/">>, <<>>, <<>>),
     Url("HTTPS", "b", "", <<"/">>, <<>>, <<>>)}

InitGoto ==
    /\ InitIdle
    /\ \E u \in GotoUrls, outs \in NavRuns :
          fn = [op |-> "safe_goto", url |-> u, outs |-> outs, done |-> FALSE,
                crawl |-> [ok |-> FALSE, tried |-> <<>>, slept |-> <<>>,
                           target |-> u],
                page |-> [ok |-> FALSE, tried |-> <<>>, slept |-> <<>>,
                          target |-> u]]

\* the url is rendered once by the crawler and once by its page task, the
\* attempts of both renders meeting outs
GotoCall ==
    /\ fn.op = "safe_goto" /\ ~fn.done
    /\ fn' = [fn EXCEPT !.done = TRUE,
                        !.crawl = safe_goto(fn.url, fn.outs),
                        !.page = page_safe_goto(fn.url, fn.outs)]
    /\ UNCHANGED progVars

NextGoto == GotoCall

SpecGoto == InitGoto /\ [][NextGoto]_vars

(***************************************************************************)
(* normalize_url on its own                                                *)
(***************************************************************************)
\* the paths "", "/", "//", "/x", "/x/" and "/x//"
NormPaths == {<<>>, <<"/">>, <<"/", "/">>, <<"/", "x">>, <<"/", "x", "/">>,
              <<"/", "x", "/", "/">>}

\* the urls normalize_url is given
NormUrls ==
    {Url(sc, h, pt, pa, q, f) :
        sc \in {"http", "HTTP", "https"}, h \in {"a", "A"}, pt \in {"", "80", "443"},
        pa \in NormPaths, q \in {<<>>, <<"q">>}, f \in {<<>>, <<"f">>}}

\* the second url of a comparison differs from the first in any of its parts
InitNormalize ==
    /\ InitIdle
    /\ \E u \in NormUrls, v \in NormUrls :
          fn = [op |-> "normalize_url", u |-> u, v |-> v, stage |-> 0,
                nu |-> NoUrl, nv |-> NoUrl, nnu |-> NoUrl]

\* normalize_url(u) and normalize_url(v)
NormalizeCall ==
    /\ fn.op = "normalize_url" /\ fn.stage = 0
    /\ fn' = [fn EXCEPT !.stage = 1, !.nu = normalize_url(fn.u), !.nv = normalize_url(fn.v)]
    /\ UNCHANGED progVars

\* normalize_url on its own result
NormalizeAgain ==
    /\ fn.op = "normalize_url" /\ fn.stage = 1
    /\ fn' = [fn EXCEPT !.stage = 2, !.nnu = normalize_url(fn.nu)]
    /\ UNCHANGED progVars

NextNormalize == NormalizeCall \/ NormalizeAgain

SpecNormalize == InitNormalize /\ [][NextNormalize]_vars

(***************************************************************************)
(* PageSpeedClient.analyze_page on its own                                 *)
(***************************************************************************)
\* what requests.get meets: a response with its status and whether its body
\* parses as JSON, a ConnectionError, or a Timeout
\* a response with its status and its body: "report" is JSON the reading of
\* the metrics accepts (a report, or an object without the keys, which reads
\* as null metrics), "other" is JSON of a shape that reading raises on (a
\* list that is not empty, a lighthouseResult that is no object, a score that
\* is no number),
\* "text" is no JSON
Http(status, body) == [kind |-> "http", status |-> status, body |-> body]
ConnectionError == [kind |-> "connection", status |-> 0, body |-> "text"]
Timeout == [kind |-> "timeout", status |-> 0, body |-> "text"]

PsResponses ==
    {Http(200, body) : body \in {"report", "other", "text"}}
    \cup {Http(st, "text") : st \in {204, 400, 404, 429, 499, 500, 599}}
    \cup {ConnectionError, Timeout}

PsAttempts == 3

\* an HTTPError that is re-raised at once, whatever the status
NoRetry_never(status) == FALSE

\* 400 <= status < 500 and status != 429: the HTTPError is re-raised at once
NoRetry(status) == 400 <= status /\ status < 500 /\ status # 429

\* the response raises requests.HTTPError: 429 and 5xx by hand, the other
\* statuses from 400 on in raise_for_status
RaisesHTTPError(resp) ==
    resp.kind = "http"
    /\ (resp.status = 429 \/ (500 <= resp.status /\ resp.status < 600)
        \/ (400 <= resp.status /\ resp.status < 600))

\* the metrics are read from the JSON the loop ended with: a body of another
\* shape raises there, outside the loop and its retries
ReadMetrics(sent, resp) ==
    IF resp.body = "report"
    THEN [requests |-> sent, result |-> "ok", err |-> resp]
    ELSE [requests |-> sent, result |-> "raise_after", err |-> resp]

\* the retry loop from `attempt` on; resps[i] is what request i meets
RECURSIVE AnalyzeFrom(_, _)
AnalyzeFrom(attempt, resps) ==
    LET resp == resps[attempt + 1]
        sent == attempt + 1
    IN  IF resp.kind = "http" /\ ~RaisesHTTPError(resp) /\ resp.body # "text"
        THEN ReadMetrics(sent, resp)
        ELSE IF RaisesHTTPError(resp) /\ NoRetry(resp.status)
             THEN [requests |-> sent, result |-> "raise", err |-> resp]
             ELSE IF attempt < PsAttempts - 1
                  THEN AnalyzeFrom(attempt + 1, resps)
                  ELSE [requests |-> sent, result |-> "raise", err |-> resp]

analyze_page(resps) == AnalyzeFrom(0, resps)

InitPageSpeed ==
    /\ InitIdle
    /\ \E resps \in [1..PsAttempts -> PsResponses] :
          fn = [op |-> "analyze_page", resps |-> resps, done |-> FALSE,
                ret |-> [requests |-> 0, result |-> "none", err |-> Timeout]]

AnalyzeCall ==
    /\ fn.op = "analyze_page" /\ ~fn.done
    /\ fn' = [fn EXCEPT !.done = TRUE, !.ret = analyze_page(fn.resps)]
    /\ UNCHANGED progVars

NextPageSpeed == AnalyzeCall

SpecPageSpeed == InitPageSpeed /\ [][NextPageSpeed]_vars

(***************************************************************************)
(* reporting.utils.hours.to12h on its own; a string is the sequence of its *)
(* characters                                                              *)
(***************************************************************************)
Digits == {"0", "1", "2", "3", "4", "5", "6", "7", "8", "9"}

\* the characters of the inputs: some digits, the colon, a blank, a letter,
\* and the signs and the underscore int() accepts
TimeChars == {"0", "1", "2", "5", "9", ":", " ", "x", "+", "-", "_"}

MaxTimeLen == 5

DigitVal(c) ==
    CASE c = "0" -> 0 [] c = "1" -> 1 [] c = "2" -> 2 [] c = "3" -> 3 [] c = "4" -> 4
      [] c = "5" -> 5 [] c = "6" -> 6 [] c = "7" -> 7 [] c = "8" -> 8 [] OTHER -> 9

DigitChar(n) ==
    CASE n = 0 -> "0" [] n = 1 -> "1" [] n = 2 -> "2" [] n = 3 -> "3" [] n = 4 -> "4"
      [] n = 5 -> "5" [] n = 6 -> "6" [] n = 7 -> "7" [] n = 8 -> "8" [] OTHER -> "9"

\* str.strip() on the blanks
RECURSIVE LStrip(_)
LStrip(t) == IF t # <<>> /\ t[1] = " " THEN LStrip(Tail(t)) ELSE t
RECURSIVE RStrip(_)
RStrip(t) == IF t # <<>> /\ t[Len(t)] = " " THEN RStrip(SubSeq(t, 1, Len(t) - 1)) ELSE t
Strip(t) == RStrip(LStrip(t))

\* int(t) succeeds: blanks around an optional sign and a run of digits, in
\* which single underscores may stand between two digits
IntOk(t) ==
    LET s    == Strip(t)
        body == IF s # <<>> /\ s[1] \in {"+", "-"} THEN Tail(s) ELSE s
    IN  /\ body # <<>>
        /\ \A i \in DOMAIN body : body[i] \in Digits \cup {"_"}
        /\ body[1] \in Digits /\ body[Len(body)] \in Digits
        /\ \A i \in 1..(Len(body) - 1) : ~(body[i] = "_" /\ body[i + 1] = "_")

\* the value of a run of digits; the underscores in it count for nothing
RECURSIVE DigitsVal(_)
DigitsVal(t) ==
    IF t = <<>> THEN 0
    ELSE IF t[Len(t)] = "_" THEN DigitsVal(SubSeq(t, 1, Len(t) - 1))
    ELSE DigitsVal(SubSeq(t, 1, Len(t) - 1)) * 10 + DigitVal(t[Len(t)])

\* int(t)
IntOf(t) ==
    LET s == Strip(t)
    IN  IF s[1] = "-" THEN 0 - DigitsVal(Tail(s))
        ELSE IF s[1] = "+" THEN DigitsVal(Tail(s))
        ELSE DigitsVal(s)

\* v.split(":", 1): the index of the first colon, 0 when there is none
ColonAt(v) ==
    IF \E i \in DOMAIN v : v[i] = ":"
    THEN CHOOSE i \in DOMAIN v : v[i] = ":" /\ \A j \in 1..(i - 1) : v[j] # ":"
    ELSE 0

\* hh_str and mm_str, or none when the length is neither 3 nor 4
SplitTime(v) ==
    IF ColonAt(v) > 0
    THEN [ok |-> TRUE, hh |-> SubSeq(v, 1, ColonAt(v) - 1),
          mm |-> SubSeq(v, ColonAt(v) + 1, Len(v))]
    ELSE IF Len(v) = 3
         THEN [ok |-> TRUE, hh |-> SubSeq(v, 1, 1), mm |-> SubSeq(v, 2, 3)]
         ELSE IF Len(v) = 4
              THEN [ok |-> TRUE, hh |-> SubSeq(v, 1, 2), mm |-> SubSeq(v, 3, 4)]
              ELSE [ok |-> FALSE, hh |-> <<>>, mm |-> <<>>]

\* the suffix that calls noon a morning hour
Suffix_noon_am(hh) == IF hh <= 12 THEN "A" ELSE "P"

\* "AM" if hh < 12 else "PM": its first letter
Suffix(hh) == IF hh < 12 THEN "A" ELSE "P"

\* hh % 12, with 12 for 0
H12(hh) == IF hh % 12 = 0 THEN 12 ELSE hh % 12

\* str(n) for n below 100
Decimal(n) == IF n < 10 THEN << DigitChar(n) >> ELSE << DigitChar(n \div 10), DigitChar(n % 10) >>

\* f"{h12}:{mm:02d} {suffix}"
FormatTime(hh, mm) ==
    Decimal(H12(hh)) \o << ":", DigitChar(mm \div 10), DigitChar(mm % 10), " ", Suffix(hh), "M" >>

to12h(value) ==
    LET v     == Strip(value)
        parts == SplitTime(v)
    IN  IF ~parts.ok THEN value
        ELSE IF ~IntOk(parts.hh) \/ ~IntOk(parts.mm) THEN value
        ELSE LET hh == IntOf(parts.hh)
                 mm == IntOf(parts.mm)
             IN  IF ~(0 <= hh /\ hh <= 23 /\ 0 <= mm /\ mm <= 59) THEN value
                 ELSE FormatTime(hh, mm)

InitHours ==
    /\ InitIdle
    /\ \E k \in 0..MaxTimeLen : \E value \in [1..k -> TimeChars] :
          fn = [op |-> "to12h", value |-> value, done |-> FALSE, ret |-> <<>>]

HoursCall ==
    /\ fn.op = "to12h" /\ ~fn.done
    /\ fn' = [fn EXCEPT !.done = TRUE, !.ret = to12h(fn.value)]
    /\ UNCHANGED progVars

NextHours == HoursCall

SpecHours == InitHours /\ [][NextHours]_vars

(***************************************************************************)
(* The claims                                                              *)
(***************************************************************************)
\* C1: in every reachable state the renders in progress in a process, crawl
\* renders and page renders of all its businesses together, are at most the
\* render concurrency limit
C1_RenderBound == \A p \in Procs : RendersInProcess(p) <= link_cc

\* the page tasks of r that have asked for the audit of their url: those that
\* got past the SEO audit, whether they then went on, failed on the audit or
\* were cancelled while they waited for it
Requested(r) == {i \in DOMAIN tasks[r] : tasks[r][i].seo}

\* C2: within a run the audit of a url is started at most once, and every page
\* task that asked for it ends with the outcome of that one audit
C2_AuditOncePerUrl ==
    \A r \in Runs :
        /\ \A u \in DOMAIN ps_calls[r] : ps_calls[r][u] <= 1
        /\ \A i \in Requested(r) :
              /\ tasks[r][i].url \in DOMAIN ps_tasks[r]
              /\ tasks[r][i].pc = "done" => ps_tasks[r][tasks[r][i].url] = "ok"
              /\ tasks[r][i].fault = "pagespeed" => ps_tasks[r][tasks[r][i].url] = "err"

\* two page tasks of one run have asked for the audit of the same url and both
\* have its result
C2_Witness ==
    \E r \in Runs : \E i, j \in Requested(r) :
        /\ i # j
        /\ tasks[r][i].url = tasks[r][j].url
        /\ tasks[r][i].pc = "done" /\ tasks[r][j].pc = "done"
        /\ ps_calls[r][tasks[r][i].url] = 1

Terminal(t) == t.pc \in {"done", "failed"}

\* some page task of r can take a step
CanStep(r) ==
    \E i \in DOMAIN tasks[r] :
        \/ tasks[r][i].pc \in {"new", "rendering"}
        \/ tasks[r][i].pc = "waiting" /\ sem[r] > 0
        \/ tasks[r][i].pc = "awaitps"
           /\ ps_tasks[r][tasks[r][i].url] \in {"pending", "running", "ok", "err"}

\* C3: a failed page task never makes run() raise and never blocks a sibling;
\* when run() has returned every page task has ended, and each one that met
\* no failure has issued its upsert, whose row is stored when the write went
\* through
C3_FailureIsolation ==
    \A r \in Runs :
        /\ run_pc[r] = "raised" => tasks[r] = <<>>
        /\ (run_pc[r] = "pages" /\ Live(r)
              /\ \E i \in DOMAIN tasks[r] : tasks[r][i].pc = "failed")
           => ((\A i \in DOMAIN tasks[r] : Terminal(tasks[r][i])) \/ CanStep(r))
        /\ run_pc[r] = "returned" =>
              \A i \in DOMAIN tasks[r] :
                  /\ Terminal(tasks[r][i])
                  /\ tasks[r][i].fault = "none" => tasks[r][i].upsert \in {"ok", "failed"}
                  /\ tasks[r][i].upsert = "ok" => << biz[r], tasks[r][i].url >> \in DOMAIN store

\* run() has returned; one of its page tasks failed and another one persisted
C3_Witness ==
    \E r \in Runs : \E i, j \in DOMAIN tasks[r] :
        /\ run_pc[r] = "returned"
        /\ tasks[r][i].pc = "failed"
        /\ tasks[r][j].upsert = "ok"

\* C4: a page whose navigation failed in all its attempts issues no upsert
C4_NoUpsertAfterNavFailure ==
    \A k \in {<< r, i >> \in Runs \X (1..2) : i \in DOMAIN tasks[r]} :
        tasks[k[1]][k[2]].nav = "failed" => tasks[k[1]][k[2]].upsert = "none"

\* C5: a run whose business gate returned true has returned without any
\* crawl render, page render, analysis call, audit or upsert
C5_GateSkipsRun ==
    \A r \in Runs :
        gate[r] = "fresh" =>
            /\ run_pc[r] = "skipped"
            /\ calls[r] = {}
            /\ RendersOf(r) = 0
            /\ subs[r] = <<>> /\ tasks[r] = <<>> /\ DOMAIN ps_tasks[r] = {}

\* a run met a fresh row of its business and was skipped
C5_Witness == \E r \in Runs : gate[r] = "fresh" /\ run_pc[r] = "skipped"

\* a row of business b was upserted less than 24 hours before now
FreshUpsert(b, now) ==
    \E key \in RowsOf(b) :
        /\ store[key].updated_at.k = "ts"
        /\ store[key].updated_at.v <= now
        /\ now - store[key].updated_at.v < TWENTY_FOUR_HOURS

\* r evaluates its business gate in this step
GateStep(r) == gate[r] = "none" /\ gate'[r] # "none"

\* C6: a run that starts less than 24 hours after an upsert of a page of its
\* business is skipped and issues no render, analysis or persistence call
C6_RerunIsNoOp ==
    [][\A r \in Runs :
          (GateStep(r) /\ FreshUpsert(biz[r], clock))
          => (run_pc'[r] = "skipped" /\ calls'[r] = {})]_vars

\* C7: of two overlapping runs of one business, neither of which found a
\* persisted page, at most one crawls
C7_AtMostOneEnriches ==
    \A r, q \in Runs :
        (r # q /\ biz[r] = biz[q] /\ gate[r] = "stale" /\ gate[q] = "stale")
        => ~(run_pc[r] \in {"root", "subs", "pages"} /\ run_pc[q] \in {"root", "subs", "pages"}
             /\ RowsOf(biz[r]) = {})

\* the row stored for the page of task i of run r
C8_Stored(r, i) ==
    LET key == << biz[r], tasks[r][i].url >>
    IN  IF key \in DOMAIN store THEN store[key] ELSE NoRow

\* no page task has written the row of the page of task i: the row stored is
\* the one that was stored when the task started
C8_Unwritten(r, i) ==
    \A q \in Runs : \A j \in DOMAIN tasks[q] :
        (biz[q] = biz[r] /\ tasks[q][j].url = tasks[r][i].url) => tasks[q][j].upsert # "ok"

\* the condition C8 gives for the AI calls, on the stored row
C8_MustRecompute(row, now) ==
    \/ ~row.present
    \/ row.updated_at.k \in {"null", "bad"}
    \/ now - row.updated_at.v >= SEVEN_DAYS

\* C8: a page task that got past its render called summarize and classify if
\* and only if no row is stored for its page, or the stored updated_at is
\* missing or does not parse or is at least 7 days old; it ran the SEO audit
\* and asked for the performance audit in either case
C8_PageGate ==
    \A r \in Runs : \A i \in Requested(r) :
        LET t == tasks[r][i]
        IN  /\ C8_Unwritten(r, i) => (t.ai <=> C8_MustRecompute(C8_Stored(r, i), t.now))
            /\ t.ai => {"summarize", "classify"} \subseteq calls[r]
            /\ {"seo", "pagespeed"} \subseteq calls[r]
            /\ t.url \in DOMAIN ps_calls[r]

\* C9: crawl() never fails, and what it returns holds the root
C9_CrawlAlwaysReturnsRoot ==
    \A r \in Runs :
        /\ run_pc[r] # "raised"
        /\ run_pc[r] = "crawled" =>
              \E i \in DOMAIN link_results[r] : link_results[r][i].url = start_url[r]

\* every fetch_and_store task of r rendered its page
AllRendered(r) == \A i \in DOMAIN subs[r] : subs[r][i].st \in {"stored", "dropped"}

\* C10: crawl() returns at most max_links pages, the root among them, and
\* exactly max_links when the root yields at least max_links - 1 links that
\* all render
C10_CrawlCap ==
    \A r \in Runs :
        /\ Len(results[r]) + 1 <= Max(1, max_links)
        /\ run_pc[r] = "crawled" =>
              /\ Len(link_results[r]) <= max_links
              /\ link_results[r][1].url = start_url[r]
              /\ (Len(root_result[r].links) >= max_links - 1 /\ AllRendered(r))
                 => Len(link_results[r]) = max_links

\* the root yielded more links than the budget leaves room for, all the
\* fetched ones rendered, and crawl() returned max_links pages
C10_Witness ==
    \E r \in Runs :
        /\ run_pc[r] = "crawled"
        /\ max_links >= 2
        /\ Len(root_result[r].links) > max_links - 1
        /\ AllRendered(r)
        /\ Len(link_results[r]) = max_links

\* C11: no two entries of what crawl() returns have urls with the same
\* normal form
C11_NoDuplicateUrls ==
    \A r \in Runs :
        run_pc[r] = "crawled" =>
            \A i, j \in DOMAIN link_results[r] :
                i # j => normalize_url(link_results[r][i].url)
                           # normalize_url(link_results[r][j].url)

\* C12: when attempt 1 on an https:// url meets a connection reset, attempt 2
\* of the same render goes to that url with the scheme http, in the crawl
\* render and in the page render alike
C12_HttpFallbackOnReset ==
    (fn.op = "safe_goto" /\ fn.done /\ fn.url.scheme = "https" /\ fn.outs[1] = "reset")
    => \A res \in {fn.crawl, fn.page} :
          /\ Len(res.tried) >= 2
          /\ res.tried[1] = fn.url
          /\ res.tried[2] = Url("http", fn.url.host, fn.url.port, fn.url.path,
                                fn.url.query, fn.url.frag)

\* attempt 1 on "https://b/x" met a reset and both renders went on to
\* "http://b/x", where the navigation succeeded
C12_Witness ==
    /\ fn.op = "safe_goto" /\ fn.done
    /\ fn.url.scheme = "https" /\ fn.url.path = <<"/", "x">>
    /\ fn.outs[1] = "reset" /\ fn.outs[2] = "ok"
    /\ fn.crawl.ok /\ fn.page.ok
    /\ fn.crawl.tried[2].scheme = "http" /\ fn.page.tried[2].scheme = "http"

\* C13: normalize_url is idempotent
C13_NormalizeIdempotent ==
    (fn.op = "normalize_url" /\ fn.stage = 2) => fn.nnu = fn.nu

\* u and v differ only in the ways C14 lists: the ports are the same once the
\* default of the scheme is written as "", and the paths are the same, or
\* differ by a trailing slash on a non-root path, or are the empty path and "/"
C14_Alike(u, v) ==
    LET Port(w) ==
            IF (Lower(w.scheme) = "http" /\ w.port = "80")
               \/ (Lower(w.scheme) = "https" /\ w.port = "443")
            THEN "" ELSE w.port
        SlashAdded(p, q) == p # <<>> /\ p # <<"/">> /\ q = p \o <<"/">>
    IN  /\ Lower(u.scheme) = Lower(v.scheme)
        /\ Lower(u.host) = Lower(v.host)
        /\ Port(u) = Port(v)
        /\ \/ u.path = v.path
           \/ SlashAdded(u.path, v.path) \/ SlashAdded(v.path, u.path)
           \/ {u.path, v.path} = {<<>>, <<"/">>}

\* C14: urls that differ only in the case of scheme or host, an explicit
\* default port, a fragment, a query, a trailing slash on a non-root path, or
\* an empty path against "/", have the same normal form
C14_NormalizeEquivalence ==
    (fn.op = "normalize_url" /\ fn.stage >= 1 /\ C14_Alike(fn.u, fn.v)) => fn.nu = fn.nv

\* "HTTP://A:80/x/?q#f" and "http://a/x" were normalized to the same url
C14_Witness ==
    /\ fn.op = "normalize_url" /\ fn.stage >= 1
    /\ fn.u = Url("HTTP", "A", "80", <<"/", "x", "/">>, <<"q">>, <<"f">>)
    /\ fn.v = Url("http", "a", "", <<"/", "x">>, <<>>, <<>>)
    /\ fn.nu = fn.nv

\* a successful response: no error status and a body that is JSON
C15_Success(resp) == resp.kind = "http" /\ resp.status < 400 /\ resp.body # "text"

\* a 4xx response other than 429
C15_Fatal(resp) == resp.kind = "http" /\ resp.status \in (400..499) \ {429}

\* the request after which the call must end: the first one that succeeds or
\* meets a 4xx other than 429, else the third
C15_Last(resps) ==
    LET ends == {i \in 1..3 : C15_Success(resps[i]) \/ C15_Fatal(resps[i])}
    IN  IF ends = {} THEN 3 ELSE CHOOSE i \in ends : \A j \in ends : i <= j

\* C15: analyze_page sends at most 3 requests; it retries after a network
\* error, a timeout, a 5xx or a 429 while attempts remain, raises right after
\* a 4xx other than 429, sends no request after the first successful
\* response, and raises the last error after 3 retryable failures.  The
\* successful response ends the call with its metrics, or, when its JSON has
\* another shape, with the exception of reading it; no retry follows either.
C15_RetryPolicy ==
    (fn.op = "analyze_page" /\ fn.done) =>
        LET last == C15_Last(fn.resps)
        IN  /\ fn.ret.requests <= 3
            /\ fn.ret.requests = last
            /\ C15_Success(fn.resps[last]) =>
                  fn.ret.result = (IF fn.resps[last].body = "report" THEN "ok"
                                   ELSE "raise_after")
            /\ ~C15_Success(fn.resps[last]) =>
                  fn.ret.result = "raise" /\ fn.ret.err = fn.resps[last]
            /\ C15_Fatal(fn.resps[1]) => fn.ret.requests = 1

\* a 500, then a 429, then a 404: the call raised the 404 after 3 requests
C15_Witness ==
    /\ fn.op = "analyze_page" /\ fn.done
    /\ fn.resps = << Http(500, "text"), Http(429, "text"), Http(404, "text") >>
    /\ fn.ret = [requests |-> 3, result |-> "raise", err |-> Http(404, "text")]

\* page task i of run r gets its upsert through in this step
C16_Upserts(r, i) ==
    /\ i \in DOMAIN tasks[r] /\ i \in DOMAIN tasks'[r]
    /\ tasks[r][i].upsert = "none" /\ tasks'[r][i].upsert = "ok"

\* C16: every upsert of a page sets updated_at to the time of the write,
\* whether or not the AI fields were recomputed, and never to an earlier time
\* than the one stored
C16_UpsertRefreshesUpdatedAt ==
    [][\A r \in Runs : \A i \in 1..2 :
          C16_Upserts(r, i) =>
              LET key == << biz[r], tasks[r][i].url >>
              IN  /\ key \in DOMAIN store'
                  /\ store'[key].updated_at = [k |-> "ts", v |-> clock']
                  /\ (key \in DOMAIN store /\ store[key].updated_at.k = "ts")
                     => store'[key].updated_at.v >= store[key].updated_at.v]_vars

\* a page task read a row 3 days old, kept its AI fields, and its upsert a day
\* later stamped the row with the time of the write
C16_Witness ==
    \E r \in Runs : \E i \in DOMAIN tasks[r] :
        LET t == tasks[r][i]
        IN  /\ t.upsert = "ok" /\ ~t.ai
            /\ t.existing.present /\ t.existing.updated_at = [k |-> "ts", v |-> 0 - 72]
            /\ clock = TWENTY_FOUR_HOURS
            /\ store[<< biz[r], t.url >>].updated_at = [k |-> "ts", v |-> clock]

\* the audits of the pipelines of process p that worker threads are executing
C17_Executing(p) == {k \in workers : batch[k[1]] = p}

\* the audits of process p that wait in the queue of the pool
C17_QueuedAudits(p) ==
    {k \in Runs \X PageUrls :
        batch[k[1]] = p /\ k[2] \in DOMAIN ps_tasks[k[1]] /\ ps_tasks[k[1]][k[2]] = "pending"}

\* C17: in a process at most ps_workers audits execute at a time, over all
\* its businesses, the others waiting in the queue of the pool; the render
\* slots of a run are held by its page renders alone, so an audit neither
\* needs nor takes one
C17_AuditPoolBound ==
    /\ \A p \in Procs : Cardinality(C17_Executing(p)) <= ps_workers
    /\ \A r \in Runs :
          (Live(r) /\ run_pc[r] = "pages") => sem[r] = link_cc - PageRenders(r)

\* with one worker, the audit of one business runs while the audit of the
\* other waits in the queue, and the run of the running audit holds no render
\* slot
C17_Witness ==
    \E p \in Procs : \E k \in C17_Executing(p) :
        /\ ps_workers = 1
        /\ C17_QueuedAudits(p) # {}
        /\ sem[k[1]] = link_cc
        /\ PageRenders(k[1]) = 0

\* C18: a failed render of a root page never makes run() raise and never
\* stops the run of another business of the batch
C18_RenderFailureIsPageScoped ==
    \A r \in Runs : run_pc[r] \notin {"raised", "cancelled"}

\* the render of page task t has ended and the task went on to its analysis
C20_Rendered(t) == t.nav # "none"

\* C20: a page task issues its analysis calls only once its render has ended,
\* and its upsert only once all of them, the awaited audit included, have
\* finished
C20_CausalOrder ==
    \A r \in Runs : \A i \in DOMAIN tasks[r] :
        LET t == tasks[r][i]
        IN  /\ ~C20_Rendered(t) =>
                  /\ ~t.ai /\ ~t.seo /\ t.upsert = "none"
                  /\ t.url \in DOMAIN ps_tasks[r] =>
                        \E j \in DOMAIN tasks[r] :
                            j # i /\ tasks[r][j].url = t.url /\ C20_Rendered(tasks[r][j])
            /\ t.upsert # "none" =>
                  /\ t.seo /\ t.nav # "none"
                  /\ t.url \in DOMAIN ps_tasks[r]
                  /\ ps_tasks[r][t.url] = "ok"

\* a page task issued its upsert, with its render, its SEO audit and its
\* performance audit behind it, while its sibling is still rendering
C20_Witness ==
    \E r \in Runs : \E i, j \in DOMAIN tasks[r] :
        /\ tasks[r][i].upsert = "ok" /\ tasks[r][i].seo
        /\ ps_tasks[r][tasks[r][i].url] = "ok"
        /\ tasks[r][j].pc = "rendering"

\* s is four digits HHMM, or HH:MM with two digits on each side
C19_WellFormed(s) ==
    \/ Len(s) = 4 /\ \A i \in 1..4 : s[i] \in Digits
    \/ Len(s) = 5 /\ s[3] = ":" /\ \A i \in {1, 2, 4, 5} : s[i] \in Digits

C19_HH(s) == DigitVal(s[1]) * 10 + DigitVal(s[2])
C19_MM(s) == DigitVal(s[Len(s) - 1]) * 10 + DigitVal(s[Len(s)])

\* s is a 24-hour time in one of the two forms
C19_IsTime(s) == C19_WellFormed(s) /\ C19_HH(s) <= 23 /\ C19_MM(s) <= 59

\* "h:MM AM" or "h:MM PM" as C19 describes it
C19_Expected(s) ==
    LET h == IF C19_HH(s) % 12 = 0 THEN 12 ELSE C19_HH(s) % 12
    IN  (IF h >= 10 THEN << "1", DigitChar(h - 10) >> ELSE << DigitChar(h) >>)
        \o << ":", s[Len(s) - 1], s[Len(s)], " ",
              (IF C19_HH(s) < 12 THEN "A" ELSE "P"), "M" >>

\* C19 as stated: a time HHMM or HH:MM is converted, every other input is
\* returned unchanged
C19_To12hExact ==
    (fn.op = "to12h" /\ fn.done) =>
        fn.ret = (IF C19_IsTime(fn.value) THEN C19_Expected(fn.value) ELSE fn.value)

\* the 12-hour times "h:MM AM" and "h:MM PM"
C19_Is12h(s) ==
    LET n == Len(s)
    IN  /\ n \in {7, 8}
        /\ n = 7 => s[1] \in Digits \ {"0"}
        /\ n = 8 => s[1] = "1" /\ s[2] \in {"0", "1", "2"}
        /\ s[n - 5] = ":"
        /\ s[n - 4] \in {"0", "1", "2", "3", "4", "5"} /\ s[n - 3] \in Digits
        /\ s[n - 2] = " " /\ s[n - 1] \in {"A", "P"} /\ s[n] = "M"

\* C19 amended: a time HHMM or HH:MM is converted as C19 describes.  Other
\* inputs are converted too when int() accepts their hour and minute parts:
\* "900" gives "9:00 AM", "9:5" gives "9:05 AM", "+9:10" gives "9:10 AM",
\* "-0:00" gives "12:00 AM" and "1_0:0" gives "10:00 AM".  A result that
\* differs from the input is a 12-hour time "h:MM AM" or "h:MM PM"; an input
\* that has no digit, more than one colon, or a character other than digits,
\* colon, blanks, "+", "-" and "_" is returned unchanged.
C19_To12hLenient ==
    (fn.op = "to12h" /\ fn.done) =>
        /\ C19_IsTime(fn.value) => fn.ret = C19_Expected(fn.value)
        /\ fn.ret # fn.value =>
              /\ C19_Is12h(fn.ret)
              /\ \A i \in DOMAIN fn.value :
                    fn.value[i] \in Digits \cup {":", " ", "+", "-", "_"}
              /\ \E i \in DOMAIN fn.value : fn.value[i] \in Digits
              /\ Cardinality({i \in DOMAIN fn.value : fn.value[i] = ":"}) <= 1
        /\ fn.value = << "9", "0", "0" >> => fn.ret = << "9", ":", "0", "0", " ", "A", "M" >>
        /\ fn.value = << "9", ":", "5" >> => fn.ret = << "9", ":", "0", "5", " ", "A", "M" >>
        /\ fn.value = << "+", "9", ":", "1", "0" >>
              => fn.ret = << "9", ":", "1", "0", " ", "A", "M" >>
        /\ fn.value = << "-", "0", ":", "0", "0" >>
              => fn.ret = << "1", "2", ":", "0", "0", " ", "A", "M" >>
        /\ fn.value = << "1", "_", "0", ":", "0" >>
              => fn.ret = << "1", "0", ":", "0", "0", " ", "A", "M" >>

\* "1200" was converted to "12:00 PM"
C19_Witness ==
    /\ fn.op = "to12h" /\ fn.done
    /\ fn.value = << "1", "2", "0", "0" >>
    /\ fn.ret = << "1", "2", ":", "0", "0", " ", "P", "M" >>

(***************************************************************************)
(* C21: one render makes at most three navigation attempts; before each    *)
(* further attempt it waits longer than before the previous one (2 s       *)
(* before the second attempt, 4 s before the third); the first successful  *)
(* attempt ends the loop at once; and after the last failed attempt the    *)
(* loop ends with a failure value (False in the crawler, None in the page  *)
(* task), whatever the three attempts meet.                                *)
(***************************************************************************)
C21_NavigationTerminates ==
    (fn.op = "safe_goto" /\ fn.done) =>
        \A res \in {fn.crawl, fn.page} :
            /\ Len(res.tried) \in 1..NavAttempts
            /\ \A k \in 2..Len(res.tried) :
                  /\ res.slept[k - 1] = 2 * (k - 1)
                  /\ fn.outs[k - 1] # "ok"
                  /\ k > 2 => res.slept[k - 1] > res.slept[k - 2]
            /\ res.ok \in BOOLEAN
            /\ res.ok <=> fn.outs[Len(res.tried)] = "ok"
            /\ res.ok => Len(res.slept) = Len(res.tried) - 1
            /\ ~res.ok => Len(res.tried) = NavAttempts

C21_Witness ==
    /\ fn.op = "safe_goto" /\ fn.done
    /\ fn.outs = <<"err", "reset", "err">>
    /\ ~fn.crawl.ok /\ ~fn.page.ok
    /\ Len(fn.crawl.tried) = 3 /\ fn.crawl.slept = <<2, 4>>

(***************************************************************************)
(* C30: the downgrade to http is sticky and bounded.  Once an attempt over *)
(* https has met a connection reset, every later attempt of the render     *)
(* goes to the http url; the render never makes more than three attempts;  *)
(* and when the reset is first met on the third attempt, the http url is   *)
(* computed but never requested and the render fails.                      *)
(***************************************************************************)
C30_StickyDowngrade ==
    (fn.op = "safe_goto" /\ fn.done) =>
        \A res \in {fn.crawl, fn.page} :
            /\ Len(res.tried) <= NavAttempts
            /\ \A i, j \in 1..Len(res.tried) :
                  (i < j /\ res.tried[i].scheme = "https" /\ fn.outs[i] = "reset")
                      => res.tried[j] = [fn.url EXCEPT !.scheme = "http"]
            /\ (fn.url.scheme = "https" /\ fn.outs[1] = "err"
                    /\ fn.outs[2] = "err" /\ fn.outs[3] = "reset")
                  => /\ ~res.ok
                     /\ res.tried = <<fn.url, fn.url, fn.url>>
                     /\ res.target = [fn.url EXCEPT !.scheme = "http"]

C30_Witness ==
    /\ fn.op = "safe_goto" /\ fn.done
    /\ fn.url.scheme = "https"
    /\ fn.outs = <<"reset", "err", "err">>
    /\ ~fn.crawl.ok
    /\ fn.crawl.tried[2].scheme = "http" /\ fn.crawl.tried[3].scheme = "http"

(***************************************************************************)
(* C22: the crawl has depth 1.  Every url crawl() renders is the start url *)
(* or a link found on the root page; every entry of the result is the root *)
(* or one of those links; a link found on a discovered page is never       *)
(* rendered and never appears as an entry.                                 *)
(***************************************************************************)
C22_DepthOne ==
    \A r \in Runs :
        LET root_links == {root_result[r].links[k] : k \in DOMAIN root_result[r].links}
            rendered   == {subs[r][i].url : i \in DOMAIN subs[r]}
            entries    == {link_results[r][k].url : k \in DOMAIN link_results[r]}
            deep       == UNION {{results[r][k].links[j] : j \in DOMAIN results[r][k].links}
                                    : k \in DOMAIN results[r]}
        IN  /\ rendered \subseteq root_links
            /\ entries \subseteq {start_url[r]} \cup root_links
            /\ deep \cap rendered = {}
            /\ deep \cap entries = {}

C22_Witness ==
    /\ run_pc["r1"] = "crawled"
    /\ Len(link_results["r1"]) >= 2
    /\ \E k \in DOMAIN link_results["r1"] :
          k > 1 /\ link_results["r1"][k].links # <<>>

(***************************************************************************)
(* C23: a discovered url whose render fails during the crawl is left out   *)
(* of the result, and crawl() still returns: the result is the root        *)
(* followed by every discovered page that rendered.  Only a failure of the *)
(* root makes crawl() raise.                                               *)
(***************************************************************************)
C23_SubFailureIsolated ==
    \A r \in Runs :
        LET entries == {link_results[r][k].url : k \in DOMAIN link_results[r]}
        IN  /\ run_pc[r] = "raised" => subs[r] = <<>>
            /\ run_pc[r] = "crawled" =>
                  /\ link_results[r][1] = root_result[r]
                  /\ \A i \in DOMAIN subs[r] :
                        /\ subs[r][i].st \in {"stored", "failed"}
                        /\ subs[r][i].st = "failed" <=> subs[r][i].url \notin entries
                  /\ Len(link_results[r]) =
                        1 + Cardinality({i \in DOMAIN subs[r] : subs[r][i].st = "stored"})

C23_Witness ==
    /\ run_pc["r1"] = "crawled"
    /\ \E i, j \in DOMAIN subs["r1"] :
          /\ subs["r1"][i].st = "failed" /\ subs["r1"][j].st = "stored"
          /\ i < j
    /\ Len(link_results["r1"]) = 2

(***************************************************************************)
(* C24: the url -> future map of a pipeline is fresh for every run: a page *)
(* task that asks for the audit of its url receives a future that its own  *)
(* run() invocation scheduled, never one left by an earlier invocation on  *)
(* the same BusinessPipeline object.                                       *)
(***************************************************************************)
C24_FreshDedupMap ==
    \A r \in Runs : \A i \in Requested(r) :
        /\ tasks[r][i].url \in DOMAIN ps_calls[r]
        /\ ps_calls[r][tasks[r][i].url] >= 1

(***************************************************************************)
(* C25: every url of a crawl result, the root's included, is in normalized *)
(* form, normalize_url(u) = u, so every page task reads and upserts its    *)
(* row under the normalized url.                                           *)
(***************************************************************************)
C25_ResultUrlsNormalized ==
    \A r \in Runs :
        /\ \A k \in DOMAIN link_results[r] :
              normalize_url(link_results[r][k].url) = link_results[r][k].url
        /\ \A i \in DOMAIN tasks[r] : normalize_url(tasks[r][i].url) = tasks[r][i].url

(***************************************************************************)
(* C26: for the render semaphore of each pipeline, the page tasks inside   *)
(* the render section plus the free permits are link_concurrency in every  *)
(* state; the permit is given back however the section is left, so when    *)
(* run() has returned all permits are free.                                *)
(***************************************************************************)
C26_PermitsConserved ==
    \A r \in Runs :
        /\ sem[r] \in 0..link_cc
        /\ PageRenders(r) + sem[r] = link_cc
        /\ run_pc[r] = "returned" => sem[r] = link_cc

C26_Witness ==
    /\ run_pc["r1"] = "returned"
    /\ link_cc = 1
    /\ Len(tasks["r1"]) = 2
    /\ tasks["r1"][1].fault = "render"
    /\ tasks["r1"][2].nav = "failed"
    /\ sem["r1"] = link_cc

(***************************************************************************)
(* C27: when the page gate reuses the AI fields, the upsert of the task    *)
(* leaves the stored summary and page_type alone: the record carries the   *)
(* value the task read, or no field where the value read was null, never   *)
(* null and never a value computed by the task, so the write puts back     *)
(* what was read and does not touch a column it omits; the other columns   *)
(* get the values of this run.                                             *)
(***************************************************************************)
C27_ReuseKeepsAiFields ==
    [][\A r \in Runs : \A i \in 1..2 :
          (C16_Upserts(r, i) /\ ~tasks'[r][i].recompute) =>
              LET t   == tasks'[r][i]
                  key == << biz[r], t.url >>
              IN  /\ t.existing.present /\ ~t.ai
                  /\ key \in DOMAIN store
                  /\ t.summary = (IF t.existing.summary = "NULL" THEN "OMIT"
                                  ELSE t.existing.summary)
                  /\ t.page_type = (IF t.existing.page_type = "NULL" THEN "OMIT"
                                    ELSE t.existing.page_type)
                  /\ store'[key].summary = (IF t.existing.summary = "NULL"
                                            THEN store[key].summary
                                            ELSE t.existing.summary)
                  /\ store'[key].page_type = (IF t.existing.page_type = "NULL"
                                              THEN store[key].page_type
                                              ELSE t.existing.page_type)
                  /\ store'[key].metrics = "new"]_vars

C27_Witness ==
    \E r \in Runs : \E i \in DOMAIN tasks[r] :
        LET t == tasks[r][i]
        IN  /\ t.upsert = "ok" /\ ~t.recompute
            /\ t.existing.summary = "NULL" /\ t.existing.page_type = "old"
            /\ t.summary = "OMIT" /\ t.page_type = "old"
            /\ store[<< biz[r], t.url >>].summary = "NULL"
            /\ store[<< biz[r], t.url >>].page_type = "old"
            /\ store[<< biz[r], t.url >>].metrics = "new"

\* page task i of run r reads its stored row in this step, and the stored row
\* was stamped by an upsert less than 7 days ago
C28_ReadsFreshRow(r, i) ==
    /\ i \in DOMAIN tasks[r] /\ i \in DOMAIN tasks'[r]
    /\ tasks[r][i].pc = "new" /\ tasks'[r][i].pc # "new"
    /\ << biz[r], tasks[r][i].url >> \in DOMAIN store
    /\ store[<< biz[r], tasks[r][i].url >>].updated_at.k = "ts"
    /\ clock - store[<< biz[r], tasks[r][i].url >>].updated_at.v < SEVEN_DAYS

\* the task goes by a row stamped less than 7 days before it started
C28_SeesFreshRow(t) ==
    /\ t.existing.present
    /\ t.existing.updated_at.k = "ts"
    /\ t.now - t.existing.updated_at.v < SEVEN_DAYS

\* no task that goes by such a row has called the summarizer or the classifier
C28_FreshRowsReused ==
    \A r \in Runs : \A i \in DOMAIN tasks[r] :
        (tasks[r][i].nav # "none" /\ C28_SeesFreshRow(tasks[r][i]))
            => /\ ~tasks[r][i].ai
               /\ tasks[r][i].summary \in {"OMIT", tasks[r][i].existing.summary}

(***************************************************************************)
(* C28: a page upserted by successive runs less than 7 days apart has the  *)
(* summarizer and the classifier called in the first of those runs only:   *)
(* a later run finds updated_at less than 7 days old, as the last upsert   *)
(* stamped it, and reuses the AI fields.                                   *)
(***************************************************************************)
C28_OnlyFirstRunEnriches ==
    [][/\ \A r \in Runs :
            C28_ReadsFreshRow(r, 1) => C28_SeesFreshRow(tasks'[r][1])
       /\ C28_FreshRowsReused']_vars

(***************************************************************************)
(* C29: when the audit of a url has failed, every page task of the run     *)
(* that asks for it ends without an upsert, the failed task stays in the   *)
(* map, and no second audit of the url is started in the run: a later      *)
(* request gets the same failure.                                          *)
(***************************************************************************)
C29_FailedAuditIsFinal ==
    [][\A r \in Runs : \A u \in DOMAIN ps_tasks[r] :
          ps_tasks[r][u] = "err" =>
              /\ u \in DOMAIN ps_tasks'[r] /\ ps_tasks'[r][u] = "err"
              /\ ps_calls[r][u] = 1 /\ ps_calls'[r][u] = 1
              /\ \A i \in DOMAIN tasks'[r] :
                    (tasks'[r][i].url = u /\ tasks'[r][i].nav # "none"
                        /\ tasks'[r][i].fault # "render") =>
                        /\ tasks'[r][i].upsert = "none"
                        /\ tasks'[r][i].pc \in {"awaitps", "failed", "cancelled"}
                        /\ tasks'[r][i].pc = "failed" => tasks'[r][i].fault = "pagespeed"
                        /\ (tasks[r][i].nav = "none") =>
                              /\ tasks'[r][i].pc = "failed"
                              /\ store' = store]_vars

\* two page tasks of one url: the audit failed once and both ended on it,
\* neither with an upsert
C29_Witness ==
    \E r \in Runs : \E i, j \in DOMAIN tasks[r] :
        /\ i < j
        /\ tasks[r][i].url = tasks[r][j].url
        /\ tasks[r][i].fault = "pagespeed" /\ tasks[r][j].fault = "pagespeed"
        /\ tasks[r][i].upsert = "none" /\ tasks[r][j].upsert = "none"
        /\ tasks[r][j].seo
        /\ ps_tasks[r][tasks[r][i].url] = "err"
        /\ ps_calls[r][tasks[r][i].url] = 1
====
